---- MODULE Spec2Model ----
(***************************************************************************)
(* A model of the cricket simulation engine: the per-ball outcome model    *)
(* (models/player.py), the roster provider (models/team.py), the match     *)
(* record (models/match.py) and the innings loop and match orchestrator    *)
(* (simulation/engine.py).                                                  *)
(*                                                                         *)
(* Floating-point probabilities are modelled as exact rationals; a value   *)
(* returned by random.random() is modelled as d/1000 for an integer draw d *)
(* in 0..999.  Python dicts are modelled as sequences of <<key, value>>    *)
(* pairs in insertion order.                                               *)
(***************************************************************************)
EXTENDS Integers, Sequences, FiniteSets, TLC

(***************************************************************************)
(* Bounds of the model.                                                    *)
(***************************************************************************)
\* The oracle bowls at most this many legal balls in an innings.
MaxBalls == 6
\* The oracle draws no extra once an innings has this many extras.
MaxExtras == 1
\* Largest target handed to a directly called simulate_innings.
MaxTarget == 2

(***************************************************************************)
(* Program constants.                                                      *)
(***************************************************************************)
BallsPerOver == 6
MaxWickets == 10

NoTarget == -1
None == "None"
NoPlayer == [player_id |-> 0]

(***************************************************************************)
(* Python dicts: sequences of <<key, value>> in insertion order.           *)
(***************************************************************************)
DictHas(d, k) == \E i \in 1..Len(d) : d[i][1] = k

DictIdx(d, k) == CHOOSE i \in 1..Len(d) : d[i][1] = k

DictGet(d, k) == d[DictIdx(d, k)][2]

DictSet(d, k, v) ==
    IF DictHas(d, k) THEN [d EXCEPT ![DictIdx(d, k)] = <<k, v>>]
    ELSE Append(d, <<k, v>>)

DictKeys(d) == {d[i][1] : i \in 1..Len(d)}

RECURSIVE DictSum(_)
DictSum(d) == IF d = <<>> THEN 0 ELSE d[1][2] + DictSum(Tail(d))

\* {**a, **b}
RECURSIVE DictMerge(_, _)
DictMerge(a, b) ==
    IF b = <<>> THEN a ELSE DictMerge(DictSet(a, b[1][1], b[1][2]), Tail(b))

(***************************************************************************)
(* Players (models/player.py).  Averages and strike rates are whole       *)
(* numbers; an economy rate is held in tenths of a run (65 is 6.5).        *)
(***************************************************************************)
Player(id, name, role, bat, sr, bowl, econ) ==
    [player_id |-> id, name |-> name, role |-> role,
     batting_average |-> bat, strike_rate |-> sr,
     bowling_average |-> bowl, economy |-> econ]

Max2(a, b) == IF a >= b THEN a ELSE b
Min2(a, b) == IF a <= b THEN a ELSE b

\* A rational is a pair <<numerator, denominator>> with denominator > 0.
RatLess(p, q) == p[1] * q[2] < q[1] * p[2]
RatMax(p, q) == IF RatLess(p, q) THEN q ELSE p
RatMin(p, q) == IF RatLess(q, p) THEN q ELSE p

\* Faulty variant: a bowler's average is used whatever its sign.
BowlerFactorUnguarded(bowler) ==
    IF bowler # NoPlayer
    THEN <<30, Max2(bowler.bowling_average, 20)>>
    ELSE <<1, 1>>

\* calculate_dismissal_probability: 0.025 * 37.5/max(avg,15) * 30/max(bavg,20),
\* capped to [0.005, 0.08].  0.025 * 37.5 = 0.9375 = 15/16.
BowlerFactor(bowler) ==
    IF bowler # NoPlayer /\ bowler.bowling_average > 0
    THEN <<30, Max2(bowler.bowling_average, 20)>>
    ELSE <<1, 1>>

calculate_dismissal_probability(batsman, bowler) ==
    LET bf == BowlerFactor(bowler)
        prob == <<15 * bf[1], 16 * Max2(batsman.batting_average, 15) * bf[2]>>
    IN  RatMax(<<5, 1000>>, RatMin(<<80, 1000>>, prob))

\* calculate_scoring_probabilities: the six unnormalised masses, in units of
\* 1/(100 * ad) where aggression = an/ad, as <<runs, mass>> in ascending runs.
Aggression(batsman, bowler) ==
    IF bowler # NoPlayer /\ bowler.economy > 0
    THEN <<batsman.strike_rate * bowler.economy, 6000>>
    ELSE <<batsman.strike_rate, 100>>

\* Faulty variant: the dot-ball mass has no floor.
ScoringMassesNoFloor(batsman, bowler) ==
    LET ag == Aggression(batsman, bowler)
        an == ag[1]
        ad == ag[2]
    IN  << <<0, 55 * ad - 15 * an>>,
           <<1, 30 * ad>>,
           <<2, 10 * ad>>,
           <<3, 2 * ad>>,
           <<4, Min2(15 * ad, 5 * ad + 8 * an)>>,
           <<6, Min2(10 * ad, 2 * ad + 6 * an)>> >>

ScoringMasses(batsman, bowler) ==
    LET ag == Aggression(batsman, bowler)
        an == ag[1]
        ad == ag[2]
    IN  << <<0, Max2(35 * ad, 55 * ad - 15 * an)>>,
           <<1, 30 * ad>>,
           <<2, 10 * ad>>,
           <<3, 2 * ad>>,
           <<4, Min2(15 * ad, 5 * ad + 8 * an)>>,
           <<6, Min2(10 * ad, 2 * ad + 6 * an)>> >>

\* The probability of each run value is its mass over the total of the masses.
calculate_scoring_probabilities(batsman, bowler) ==
    LET m == ScoringMasses(batsman, bowler)
        total == DictSum(m)
    IN  [i \in 1..Len(m) |-> <<m[i][1], <<m[i][2], total>>>>]

(***************************************************************************)
(* The ball simulator (SimulationEngine.simulate_ball).  d1, d2, d3 are the *)
(* next three values of the random source; ndraws is how many were used.   *)
(***************************************************************************)
BallResult(runs, is_wicket, is_extra, extra_type, ndraws) ==
    [runs |-> runs, is_wicket |-> is_wicket, is_extra |-> is_extra,
     extra_type |-> extra_type, ndraws |-> ndraws]

\* random.random() < p for the draw d and the rational p
DrawBelow(d, p) == RatLess(<<d, 1000>>, p)

\* Faulty variant: randint(0, 2).
RandInt02(d) == IF d < 333 THEN 0 ELSE IF d < 667 THEN 1 ELSE 2

\* random.randint(0, 1) and the index random.choice draws for a list of two
RandInt01(d) == IF d < 500 THEN 0 ELSE 1

\* for runs, prob in sorted(scoring_probs.items()): cumulative += prob;
\* if rand < cumulative: return runs.  Falls back to 0.
RECURSIVE PickRuns(_, _, _, _)
PickRuns(probs, i, cumulative, d) ==
    IF i > Len(probs) THEN 0
    ELSE LET c == cumulative + probs[i][2][1]
         IN  IF DrawBelow(d, <<c, probs[i][2][2]>>) THEN probs[i][1]
             ELSE PickRuns(probs, i + 1, c, d)

simulate_ball(batsman, bowler, d1, d2, d3) ==
    IF DrawBelow(d1, <<5, 100>>)
    THEN IF DrawBelow(d2, <<7, 10>>)
         THEN BallResult(1, FALSE, TRUE, "wide", 2)
         ELSE BallResult(1 + RandInt01(d3), FALSE, TRUE, "no-ball", 3)
    ELSE IF DrawBelow(d2, calculate_dismissal_probability(batsman, bowler))
         THEN BallResult(0, TRUE, FALSE, "", 2)
         ELSE BallResult(PickRuns(calculate_scoring_probabilities(batsman, bowler),
                                  1, 0, d3),
                         FALSE, FALSE, "", 3)

(***************************************************************************)
(* The roster provider (models/team.py).  A roster is a sequence of        *)
(* players.                                                                *)
(***************************************************************************)
RECURSIVE SelectSeq2(_, _)
SelectSeq2(s, role) ==
    IF s = <<>> THEN <<>>
    ELSE IF s[1].role = role THEN <<s[1]>> \o SelectSeq2(Tail(s), role)
         ELSE SelectSeq2(Tail(s), role)

\* list.sort is stable: x goes after every element whose key is <= its key.
RECURSIVE InsertByKey(_, _)
InsertByKey(sorted, x) ==
    IF sorted = <<>> THEN <<x>>
    ELSE IF sorted[1][1] <= x[1] THEN <<sorted[1]>> \o InsertByKey(Tail(sorted), x)
         ELSE <<x>> \o sorted

RECURSIVE SortKeyed(_)
SortKeyed(s) ==
    IF s = <<>> THEN <<>>
    ELSE InsertByKey(SortKeyed(SubSeq(s, 1, Len(s) - 1)), s[Len(s)])

\* sort(key=batting average, reverse=True)
SortByBattingAverage(s) ==
    LET keyed == [i \in 1..Len(s) |-> <<0 - s[i].batting_average, s[i]>>]
        sorted == SortKeyed(keyed)
    IN  [i \in 1..Len(s) |-> sorted[i][2]]

\* Faulty variant: sort(key=bowling average), an unrated bowler's 0 included.
SortByRawBowlingAverage(s) ==
    LET keyed == [i \in 1..Len(s) |-> <<s[i].bowling_average, s[i]>>]
        sorted == SortKeyed(keyed)
    IN  [i \in 1..Len(s) |-> sorted[i][2]]

\* sort(key=bowling average if > 0 else 999)
SortByBowlingAverage(s) ==
    LET keyed == [i \in 1..Len(s) |->
                    <<IF s[i].bowling_average > 0 THEN s[i].bowling_average ELSE 999,
                      s[i]>>]
        sorted == SortKeyed(keyed)
    IN  [i \in 1..Len(s) |-> sorted[i][2]]

Take(s, n) == SubSeq(s, 1, Min2(n, Len(s)))
Drop(s, n) == SubSeq(s, Min2(n, Len(s)) + 1, Len(s))

\* Faulty variant: all the batsmen go in before the wicket-keepers.
get_batting_order_by_role(players) ==
    LET batsmen == SortByBattingAverage(SelectSeq2(players, "batsman"))
        wicket_keepers == SortByBattingAverage(SelectSeq2(players, "wicket-keeper"))
        all_rounders == SortByBattingAverage(SelectSeq2(players, "all-rounder"))
        bowlers == SortByBattingAverage(SelectSeq2(players, "bowler"))
    IN  batsmen \o wicket_keepers \o all_rounders \o bowlers

get_batting_order(players) ==
    LET batsmen == SortByBattingAverage(SelectSeq2(players, "batsman"))
        wicket_keepers == SortByBattingAverage(SelectSeq2(players, "wicket-keeper"))
        all_rounders == SortByBattingAverage(SelectSeq2(players, "all-rounder"))
        bowlers == SortByBattingAverage(SelectSeq2(players, "bowler"))
    IN  Take(batsmen, 3) \o wicket_keepers \o all_rounders \o Drop(batsmen, 3) \o bowlers

get_bowlers(players) ==
    SortByBowlingAverage(SelectSeq2(players, "bowler"))
        \o SortByBowlingAverage(SelectSeq2(players, "all-rounder"))

(***************************************************************************)
(* The match record (models/match.py).                                     *)
(***************************************************************************)
Formats == {"T20", "ODI", "Test"}

get_max_overs(format) ==
    IF format = "T20" THEN 20
    ELSE IF format = "ODI" THEN 50
    ELSE 90

\* InningsData.__init__
InningsData ==
    [score |-> 0, wickets |-> 0, overs |-> 0, balls |-> 0, extras |-> 0,
     batting_scores |-> <<>>, batting_balls |-> <<>>,
     bowling_figures |-> <<>>, fall_of_wickets |-> <<>>]

\* InningsData.get_overs_float, in tenths
get_overs_float(inn) == inn.overs * 10 + inn.balls

\* Match.__init__
NewMatch ==
    [toss_winner |-> None, elected_to |-> None, status |-> "NOT_STARTED",
     winner |-> None, result_text |-> <<>>,
     innings1 |-> InningsData, innings2 |-> InningsData,
     player_of_match |-> NoPlayer,
     team_a_score |-> 0, team_a_wickets |-> 0, team_a_overs |-> 0,
     team_b_score |-> 0, team_b_wickets |-> 0, team_b_overs |-> 0]

\* SimulationEngine.__init__ (current_innings is the variable innings)
NewEngine ==
    [batting_team |-> None, bowling_team |-> None,
     batsmen_index |-> 0, bowler_index |-> 0, bowler_overs |-> <<>>]

\* the locals of simulate_match before it is first called
NoMatchLocals == [first_batting |-> None, first_bowling |-> None, target |-> NoTarget]

\* how a call of the caller ended: the operation, its argument, whether it raised
Outcome(call, arg, raised) == [call |-> call, arg |-> arg, raised |-> raised]

\* no call has ended: none was made, or one is running
NoCall == Outcome("", None, FALSE)

\* history: nothing simulated yet
NoTally == [runs |-> <<>>, wickets |-> <<>>]

\* history: the random source was seeded with seed, no call made yet
NoHistory(seed) ==
    [seed |-> seed, calls |-> 0, replay |-> FALSE, first |-> NewMatch,
     first_ret |-> NoCall, tally1 |-> NoTally, before |-> NewMatch]

\* the locals of simulate_innings before it is first called
NoLocals ==
    [striker |-> NoPlayer, non_striker |-> NoPlayer, current_bowler |-> NoPlayer,
     batting_order |-> <<>>, bowlers |-> <<>>, target |-> NoTarget, max_overs |-> 0]

VARIABLES
    teams,      \* team -> its players list (Team.players)
    format,     \* Match.format
    match,      \* the other fields of the Match
    engine,     \* the fields of the SimulationEngine
    innings,    \* the InningsData of the running innings (engine.current_innings)
    loc,        \* the locals of simulate_innings
    ipc,        \* where simulate_innings is: idle, loop, returned, raised
    mpc,        \* where simulate_match is
    mloc,       \* the locals of simulate_match
    rng,        \* the state of the random source
    hist,       \* history: the seed, the calls made, the first call's result,
                \* the match as it was when simulate_match was last called
    ret,        \* the caller's last call and how it ended (NoCall while one runs)
    tally       \* history: the running innings' runs and wickets per player_id

vars == <<teams, format, match, engine, innings, loc, ipc, mpc, mloc, rng, hist, ret,
          tally>>

(***************************************************************************)
(* The innings loop (SimulationEngine.simulate_innings).                   *)
(***************************************************************************)
\* if target and ...: None and 0 are both falsy
Truthy(target) == target # NoTarget /\ target # 0

NewFigures == [overs |-> 0, runs |-> 0, wickets |-> 0]

\* if current_bowler.name not in innings.bowling_figures: ... = {0, 0, 0}
EnsureBowler(figures, name) ==
    IF DictHas(figures, name) THEN figures ELSE Append(figures, <<name, NewFigures>>)

DictAdd(d, k, n) == DictSet(d, k, DictGet(d, k) + n)

\* {b.name: 0 for b in bowlers}
RECURSIVE ZeroOvers(_)
ZeroOvers(bowlers) ==
    IF bowlers = <<>> THEN <<>>
    ELSE DictSet(ZeroOvers(SubSeq(bowlers, 1, Len(bowlers) - 1)),
                 bowlers[Len(bowlers)].name, 0)

\* Faulty variant: the rosters are checked before the new InningsData is made, so
\* a call that raises leaves the previous innings as the current one.
InningsSetupCheckFirst(batting_team, bowling_team, target) ==
    LET batting_order == get_batting_order(teams[batting_team])
        bowlers == get_bowlers(teams[bowling_team])
        e1 == [engine EXCEPT !.batting_team = batting_team,
                             !.bowling_team = bowling_team]
    IN  IF Len(batting_order) < 2 \/ Len(bowlers) < 1
        THEN [innings |-> innings, engine |-> e1, loc |-> loc, ipc |-> "raised"]
        ELSE LET striker == batting_order[1]
                 non_striker == batting_order[2]
                 s1 == DictSet(<<>>, striker.name, 0)
                 s2 == DictSet(s1, non_striker.name, 0)
             IN  [innings |-> [InningsData EXCEPT !.batting_scores = s2,
                                                  !.batting_balls = s2],
                  engine |-> [e1 EXCEPT !.batsmen_index = 2,
                                        !.bowler_index = 0,
                                        !.bowler_overs = ZeroOvers(bowlers)],
                  loc |-> [striker |-> striker, non_striker |-> non_striker,
                           current_bowler |-> bowlers[(0 % Len(bowlers)) + 1],
                           batting_order |-> batting_order, bowlers |-> bowlers,
                           target |-> target, max_overs |-> get_max_overs(format)],
                  ipc |-> "loop"]

\* Faulty variant: the bowling rotation carries on from the previous innings
\* (bowler_index is not set back to 0).
InningsSetupKeepRotation(batting_team, bowling_team, target) ==
    LET batting_order == get_batting_order(teams[batting_team])
        bowlers == get_bowlers(teams[bowling_team])
        e1 == [engine EXCEPT !.batting_team = batting_team,
                             !.bowling_team = bowling_team]
    IN  IF Len(batting_order) < 2 \/ Len(bowlers) < 1
        THEN [innings |-> InningsData, engine |-> e1, loc |-> loc, ipc |-> "raised"]
        ELSE LET striker == batting_order[1]
                 non_striker == batting_order[2]
                 s1 == DictSet(<<>>, striker.name, 0)
                 s2 == DictSet(s1, non_striker.name, 0)
             IN  [innings |-> [InningsData EXCEPT !.batting_scores = s2,
                                                  !.batting_balls = s2],
                  engine |-> [e1 EXCEPT !.batsmen_index = 2,
                                        !.bowler_overs = ZeroOvers(bowlers)],
                  loc |-> [striker |-> striker, non_striker |-> non_striker,
                           current_bowler |->
                               bowlers[(engine.bowler_index % Len(bowlers)) + 1],
                           batting_order |-> batting_order, bowlers |-> bowlers,
                           target |-> target, max_overs |-> get_max_overs(format)],
                  ipc |-> "loop"]

\* lines 114-143: the set-up of an innings, or the ValueError
InningsSetup(batting_team, bowling_team, target) ==
    LET batting_order == get_batting_order(teams[batting_team])
        bowlers == get_bowlers(teams[bowling_team])
        e1 == [engine EXCEPT !.batting_team = batting_team,
                             !.bowling_team = bowling_team]
    IN  IF Len(batting_order) < 2 \/ Len(bowlers) < 1
        THEN [innings |-> InningsData, engine |-> e1, loc |-> loc, ipc |-> "raised"]
        ELSE LET striker == batting_order[1]
                 non_striker == batting_order[2]
                 s1 == DictSet(<<>>, striker.name, 0)
                 s2 == DictSet(s1, non_striker.name, 0)
             IN  [innings |-> [InningsData EXCEPT !.batting_scores = s2,
                                                  !.batting_balls = s2],
                  engine |-> [e1 EXCEPT !.batsmen_index = 2,
                                        !.bowler_index = 0,
                                        !.bowler_overs = ZeroOvers(bowlers)],
                  loc |-> [striker |-> striker, non_striker |-> non_striker,
                           current_bowler |-> bowlers[(0 % Len(bowlers)) + 1],
                           batting_order |-> batting_order, bowlers |-> bowlers,
                           target |-> target, max_overs |-> get_max_overs(format)],
                  ipc |-> "loop"]

\* Faulty variant: the loop goes on whatever the number of overs bowled.
LoopConditionWicketsOnly == innings.wickets < MaxWickets

\* Faulty variant: one over too many (<= for <).
LoopConditionInclusive ==
    innings.wickets < MaxWickets /\ innings.overs <= loc.max_overs

\* while innings.wickets < 10 and innings.overs < max_overs
LoopCondition == innings.wickets < MaxWickets /\ innings.overs < loc.max_overs

\* Faulty variant: the chase stops one run short of the target.
TargetWithinOne == Truthy(loc.target) /\ innings.score + 1 >= loc.target

\* Faulty variant: the chase goes on at score = target (> for >=).
TargetExceeded == Truthy(loc.target) /\ innings.score > loc.target

\* if target and innings.score >= target: break
TargetAchieved == Truthy(loc.target) /\ innings.score >= loc.target

\* Faulty variant: the extra's runs reach the score but not innings.extras.
ExtraBallUncounted(st, r) ==
    LET name == st.loc.current_bowler.name
        f1 == EnsureBowler(st.innings.bowling_figures, name)
        f2 == DictSet(f1, name, [DictGet(f1, name) EXCEPT !.runs = @ + r.runs])
    IN  [st EXCEPT !.innings.score = @ + r.runs,
                   !.innings.bowling_figures = f2]

\* Faulty variant: an extra uses up a ball of the over.
ExtraBallConsumesBall(st, r) ==
    LET name == st.loc.current_bowler.name
        f1 == EnsureBowler(st.innings.bowling_figures, name)
        f2 == DictSet(f1, name, [DictGet(f1, name) EXCEPT !.runs = @ + r.runs])
    IN  [st EXCEPT !.innings.extras = @ + r.runs,
                   !.innings.score = @ + r.runs,
                   !.innings.balls = @ + 1,
                   !.innings.bowling_figures = f2]

\* Faulty variant: the runs of an extra are not charged to the bowler.
ExtraBallNotCharged(st, r) ==
    [st EXCEPT !.innings.extras = @ + r.runs,
               !.innings.score = @ + r.runs,
               !.innings.bowling_figures = EnsureBowler(@, st.loc.current_bowler.name)]

\* lines 162-177: an extra
ExtraBall(st, r) ==
    LET name == st.loc.current_bowler.name
        f1 == EnsureBowler(st.innings.bowling_figures, name)
        f2 == DictSet(f1, name, [DictGet(f1, name) EXCEPT !.runs = @ + r.runs])
    IN  [st EXCEPT !.innings.extras = @ + r.runs,
                   !.innings.score = @ + r.runs,
                   !.innings.bowling_figures = f2]

\* lines 180-187: a legal delivery is counted
\* Faulty variant: facing a ball takes one off the striker's strike rate.
LegalBallTiresStriker(st) ==
    [st EXCEPT !.innings.balls = @ + 1,
               !.innings.batting_balls = DictAdd(@, st.loc.striker.name, 1),
               !.innings.bowling_figures = EnsureBowler(@, st.loc.current_bowler.name),
               !.loc.striker.strike_rate = @ - 1]

LegalBall(st) ==
    [st EXCEPT !.innings.balls = @ + 1,
               !.innings.batting_balls = DictAdd(@, st.loc.striker.name, 1),
               !.innings.bowling_figures = EnsureBowler(@, st.loc.current_bowler.name)]

\* Faulty variant: the fall of wicket is recorded only when a new batsman
\* comes in.
WicketBallRecordOnArrival(st) ==
    LET name == st.loc.current_bowler.name
        w == st.innings.wickets + 1
        s1 == [st EXCEPT
                 !.innings.wickets = w,
                 !.innings.bowling_figures =
                     DictSet(@, name, [DictGet(@, name) EXCEPT !.wickets = @ + 1])]
    IN  IF st.engine.batsmen_index < Len(st.loc.batting_order)
        THEN LET next == st.loc.batting_order[st.engine.batsmen_index + 1]
             IN  [s1 EXCEPT !.loc.striker = next,
                            !.engine.batsmen_index = @ + 1,
                            !.innings.fall_of_wickets =
                                Append(@, <<st.innings.score, w, st.loc.striker.name>>),
                            !.innings.batting_scores = DictSet(@, next.name, 0),
                            !.innings.batting_balls = DictSet(@, next.name, 0)]
        ELSE [s1 EXCEPT !.brk = TRUE]

\* Faulty variant: the fall of wicket names the batter who comes in.
WicketBallRecordsIncoming(st) ==
    LET name == st.loc.current_bowler.name
        w == st.innings.wickets + 1
        s1 == [st EXCEPT
                 !.innings.wickets = w,
                 !.innings.bowling_figures =
                     DictSet(@, name, [DictGet(@, name) EXCEPT !.wickets = @ + 1])]
    IN  IF st.engine.batsmen_index < Len(st.loc.batting_order)
        THEN LET next == st.loc.batting_order[st.engine.batsmen_index + 1]
             IN  [s1 EXCEPT !.loc.striker = next,
                            !.engine.batsmen_index = @ + 1,
                            !.innings.fall_of_wickets =
                                Append(@, <<st.innings.score, w, next.name>>),
                            !.innings.batting_scores = DictSet(@, next.name, 0),
                            !.innings.batting_balls = DictSet(@, next.name, 0)]
        ELSE [s1 EXCEPT !.brk = TRUE,
                        !.innings.fall_of_wickets =
                            Append(@, <<st.innings.score, w, st.loc.striker.name>>)]

\* Faulty variant: with no batter left to come in, the innings goes on with the
\* non-striker facing.
WicketBallLastManStands(st) ==
    LET name == st.loc.current_bowler.name
        w == st.innings.wickets + 1
        s1 == [st EXCEPT
                 !.innings.wickets = w,
                 !.innings.bowling_figures =
                     DictSet(@, name, [DictGet(@, name) EXCEPT !.wickets = @ + 1]),
                 !.innings.fall_of_wickets =
                     Append(@, <<st.innings.score, w, st.loc.striker.name>>)]
    IN  IF st.engine.batsmen_index < Len(st.loc.batting_order)
        THEN LET next == st.loc.batting_order[st.engine.batsmen_index + 1]
             IN  [s1 EXCEPT !.loc.striker = next,
                            !.engine.batsmen_index = @ + 1,
                            !.innings.batting_scores = DictSet(@, next.name, 0),
                            !.innings.batting_balls = DictSet(@, next.name, 0)]
        ELSE [s1 EXCEPT !.loc.striker = st.loc.non_striker]

\* lines 189-209: a wicket; brk is the break of the all-out branch
WicketBall(st) ==
    LET name == st.loc.current_bowler.name
        w == st.innings.wickets + 1
        s1 == [st EXCEPT
                 !.innings.wickets = w,
                 !.innings.bowling_figures =
                     DictSet(@, name, [DictGet(@, name) EXCEPT !.wickets = @ + 1]),
                 !.innings.fall_of_wickets =
                     Append(@, <<st.innings.score, w, st.loc.striker.name>>)]
    IN  IF st.engine.batsmen_index < Len(st.loc.batting_order)
        THEN LET next == st.loc.batting_order[st.engine.batsmen_index + 1]
             IN  [s1 EXCEPT !.loc.striker = next,
                            !.engine.batsmen_index = @ + 1,
                            !.innings.batting_scores = DictSet(@, next.name, 0),
                            !.innings.batting_balls = DictSet(@, next.name, 0)]
        ELSE [s1 EXCEPT !.brk = TRUE]

\* lines 210-222: runs off the bat
RunsBall(st, r) ==
    LET name == st.loc.current_bowler.name
        s1 == [st EXCEPT
                 !.innings.score = @ + r.runs,
                 !.innings.batting_scores = DictAdd(@, st.loc.striker.name, r.runs),
                 !.innings.bowling_figures =
                     DictSet(@, name, [DictGet(@, name) EXCEPT !.runs = @ + r.runs])]
    IN  IF r.runs % 2 = 1
        THEN [s1 EXCEPT !.loc.striker = st.loc.non_striker,
                        !.loc.non_striker = st.loc.striker]
        ELSE s1

\* Faulty variant: the batters do not change ends at the end of an over.
EndOfOverKeepsStrike(st) ==
    IF st.innings.balls = BallsPerOver
    THEN LET name == st.loc.current_bowler.name
             idx == st.engine.bowler_index + 1
         IN  [st EXCEPT
                 !.innings.overs = @ + 1,
                 !.innings.balls = 0,
                 !.engine.bowler_overs = DictAdd(@, name, 1),
                 !.innings.bowling_figures =
                     DictSet(@, name, [DictGet(@, name) EXCEPT !.overs = @ + 1]),
                 !.engine.bowler_index = idx,
                 !.loc.current_bowler = st.loc.bowlers[(idx % Len(st.loc.bowlers)) + 1]]
    ELSE st

\* Faulty variant: the bowler of the over that ended bowls on.
EndOfOverSameBowler(st) ==
    IF st.innings.balls = BallsPerOver
    THEN LET name == st.loc.current_bowler.name
             idx == st.engine.bowler_index + 1
         IN  [st EXCEPT
                 !.innings.overs = @ + 1,
                 !.innings.balls = 0,
                 !.engine.bowler_overs = DictAdd(@, name, 1),
                 !.innings.bowling_figures =
                     DictSet(@, name, [DictGet(@, name) EXCEPT !.overs = @ + 1]),
                 !.loc.striker = st.loc.non_striker,
                 !.loc.non_striker = st.loc.striker,
                 !.engine.bowler_index = idx]
    ELSE st

\* lines 224-236: the end of an over
EndOfOver(st) ==
    IF st.innings.balls = BallsPerOver
    THEN LET name == st.loc.current_bowler.name
             idx == st.engine.bowler_index + 1
         IN  [st EXCEPT
                 !.innings.overs = @ + 1,
                 !.innings.balls = 0,
                 !.engine.bowler_overs = DictAdd(@, name, 1),
                 !.innings.bowling_figures =
                     DictSet(@, name, [DictGet(@, name) EXCEPT !.overs = @ + 1]),
                 !.loc.striker = st.loc.non_striker,
                 !.loc.non_striker = st.loc.striker,
                 !.engine.bowler_index = idx,
                 !.loc.current_bowler = st.loc.bowlers[(idx % Len(st.loc.bowlers)) + 1]]
    ELSE st

\* one pass of the loop body for the ball result r
LoopBody(st, r) ==
    IF r.is_extra THEN ExtraBall(st, r)
    ELSE LET s1 == LegalBall(st)
             s2 == IF r.is_wicket THEN WicketBall(s1) ELSE RunsBall(s1, r)
         IN  IF s2.brk THEN s2 ELSE EndOfOver(s2)

\* The random source as an oracle: any of these values may be drawn.
Draws == {0, 500, 999}

\* History: what the ball r gives the striker (runs off the bat) and the bowler
\* (a wicket), whatever their names.
Bump(d, k, n) == IF DictHas(d, k) THEN DictAdd(d, k, n) ELSE Append(d, <<k, n>>)

Credit(t, striker, bowler, r) ==
    IF r.is_extra THEN t
    ELSE IF r.is_wicket
    THEN [t EXCEPT !.wickets = Bump(@, bowler.player_id, 1)]
    ELSE [t EXCEPT !.runs = Bump(@, striker.player_id, r.runs)]

\* One delivery of the running innings whose ball result is r.
Delivery(r) ==
    /\ ipc = "loop"
    /\ LoopCondition
    /\ ~TargetAchieved
    /\ \E st \in {LoopBody([innings |-> innings, loc |-> loc, engine |-> engine,
                              brk |-> FALSE], r)} :
           /\ innings' = st.innings
           /\ loc' = st.loc
           /\ engine' = st.engine
           /\ ipc' = IF st.brk THEN "returned" ELSE "loop"
           /\ tally' = Credit(tally, loc.striker, loc.current_bowler, r)

\* The loop ends (its condition fails or the target is achieved): return innings.
InningsReturn ==
    /\ ipc = "loop"
    /\ ~LoopCondition \/ TargetAchieved
    /\ ipc' = "returned"
    /\ UNCHANGED <<innings, loc, engine, tally>>

(***************************************************************************)
(* The match orchestrator (SimulationEngine.simulate_match).               *)
(***************************************************************************)
\* The seeded random source: each value drawn is the state, which then advances.
NextRng(x) == (21 * x + 7) % 1000

\* lines 262-273: the toss, from the next two random values
TossWinner(d1) == IF RandInt01(d1) = 0 THEN "A" ELSE "B"

ElectedTo(d2) == IF DrawBelow(d2, <<6, 10>>) THEN "bat" ELSE "bowl"

\* Faulty variant: the toss winner bats first whatever it elected.
FirstBattingTossWinner(toss_winner, elected_to) == toss_winner

FirstBatting(toss_winner, elected_to) ==
    IF elected_to = "bat" THEN toss_winner
    ELSE IF toss_winner = "A" THEN "B" ELSE "A"

FirstBowling(toss_winner, elected_to) ==
    IF elected_to = "bat" THEN (IF toss_winner = "A" THEN "B" ELSE "A")
    ELSE toss_winner

\* Faulty variant: the innings is credited to the scoreline of the fielding team.
UpdateScoresFieldingTeam(m, team, inn) ==
    IF team = "A"
    THEN [m EXCEPT !.team_b_score = inn.score,
                   !.team_b_wickets = inn.wickets,
                   !.team_b_overs = get_overs_float(inn)]
    ELSE [m EXCEPT !.team_a_score = inn.score,
                   !.team_a_wickets = inn.wickets,
                   !.team_a_overs = get_overs_float(inn)]

\* lines 288-295 and 306-313: the batting team's match-level scoreline
UpdateScores(m, team, inn) ==
    IF team = "A"
    THEN [m EXCEPT !.team_a_score = inn.score,
                   !.team_a_wickets = inn.wickets,
                   !.team_a_overs = get_overs_float(inn)]
    ELSE [m EXCEPT !.team_b_score = inn.score,
                   !.team_b_wickets = inn.wickets,
                   !.team_b_overs = get_overs_float(inn)]

\* Faulty variant: the match is marked COMPLETED as soon as the winner is known,
\* before the player of the match is selected.
DetermineWinnerCompletes(m, first_batting, first_bowling) ==
    LET first_innings_score == m.innings1.score
        second_innings_score == m.innings2.score
    IN  IF second_innings_score > first_innings_score
        THEN [m EXCEPT !.winner = first_bowling,
                       !.status = "COMPLETED",
                       !.result_text = <<first_bowling, "won by",
                                         MaxWickets - m.innings2.wickets, "wickets">>]
        ELSE IF second_innings_score < first_innings_score
        THEN [m EXCEPT !.winner = first_batting,
                       !.status = "COMPLETED",
                       !.result_text = <<first_batting, "won by",
                                         first_innings_score - second_innings_score,
                                         "runs">>]
        ELSE [m EXCEPT !.winner = None, !.status = "COMPLETED",
                       !.result_text = <<"Match tied">>]

\* Faulty variant: a chase is won by the wickets that fell, not those in hand.
DetermineWinnerWicketsFallen(m, first_batting, first_bowling) ==
    LET first_innings_score == m.innings1.score
        second_innings_score == m.innings2.score
    IN  IF second_innings_score > first_innings_score
        THEN [m EXCEPT !.winner = first_bowling,
                       !.result_text = <<first_bowling, "won by",
                                         m.innings2.wickets, "wickets">>]
        ELSE IF second_innings_score < first_innings_score
        THEN [m EXCEPT !.winner = first_batting,
                       !.result_text = <<first_batting, "won by",
                                         first_innings_score - second_innings_score,
                                         "runs">>]
        ELSE [m EXCEPT !.winner = None, !.result_text = <<"Match tied">>]

\* lines 315-330: the winner and the result text
DetermineWinner(m, first_batting, first_bowling) ==
    LET first_innings_score == m.innings1.score
        second_innings_score == m.innings2.score
    IN  IF second_innings_score > first_innings_score
        THEN [m EXCEPT !.winner = first_bowling,
                       !.result_text = <<first_bowling, "won by",
                                         MaxWickets - m.innings2.wickets, "wickets">>]
        ELSE IF second_innings_score < first_innings_score
        THEN [m EXCEPT !.winner = first_batting,
                       !.result_text = <<first_batting, "won by",
                                         first_innings_score - second_innings_score,
                                         "runs">>]
        ELSE [m EXCEPT !.winner = None, !.result_text = <<"Match tied">>]

\* max(d, key=...): the first key, in the dict's order, whose value is the largest
FirstMaxIdx(vals) ==
    CHOOSE i \in 1..Len(vals) :
        /\ \A j \in 1..Len(vals) : vals[j] <= vals[i]
        /\ \A j \in 1..(i - 1) : vals[j] < vals[i]

\* for team in [team_a, team_b]: for player in team.players: if player.name == name
FindPlayer(rosters, name) ==
    LET all == rosters["A"] \o rosters["B"]
        hits == {i \in 1..Len(all) : all[i].name = name}
    IN  IF hits = {} THEN NoPlayer
        ELSE all[CHOOSE i \in hits : \A j \in hits : i <= j]

\* _select_player_of_match
select_player_of_match(m, rosters) ==
    LET all_batting == DictMerge(m.innings1.batting_scores, m.innings2.batting_scores)
        all_bowling == DictMerge(m.innings1.bowling_figures, m.innings2.bowling_figures)
        bi == FirstMaxIdx([i \in 1..Len(all_batting) |-> all_batting[i][2]])
        top_scorer_name == IF all_batting # <<>> THEN all_batting[bi][1] ELSE ""
        top_score == IF all_batting # <<>> THEN all_batting[bi][2] ELSE 0
        wi == FirstMaxIdx([i \in 1..Len(all_bowling) |-> all_bowling[i][2].wickets])
        top_bowler_name == IF all_bowling # <<>> THEN all_bowling[wi][1] ELSE ""
        top_wickets == IF all_bowling # <<>> THEN all_bowling[wi][2].wickets ELSE 0
        by_wickets == IF top_wickets >= 3 THEN FindPlayer(rosters, top_bowler_name)
                      ELSE NoPlayer
        by_forty == IF top_score >= 40 THEN FindPlayer(rosters, top_scorer_name)
                    ELSE NoPlayer
        by_runs == IF top_scorer_name # "" THEN FindPlayer(rosters, top_scorer_name)
                   ELSE NoPlayer
    IN  IF by_wickets # NoPlayer THEN by_wickets
        ELSE IF by_forty # NoPlayer THEN by_forty
        ELSE by_runs

\* Faulty variant: the winner is recorded without being validated.
end_match_unvalidated(m, winner, result_text) ==
    [match |-> [m EXCEPT !.winner = winner, !.result_text = result_text,
                         !.status = "COMPLETED"],
     raised |-> FALSE]

\* Match.end_match: the match after the call, and whether it raised ValueError
end_match(m, winner, result_text) ==
    IF winner # None /\ winner \notin {"A", "B"}
    THEN [match |-> m, raised |-> TRUE]
    ELSE [match |-> [m EXCEPT !.winner = winner, !.result_text = result_text,
                              !.status = "COMPLETED"],
          raised |-> FALSE]

\* Match.start_match
start_match(m) ==
    IF m.status = "NOT_STARTED" THEN [m EXCEPT !.status = "IN_PROGRESS"] ELSE m

(***************************************************************************)
(* The squads the model is run on.                                         *)
(***************************************************************************)
\* a batsman, an all-rounder and a bowler
SquadFull ==
    << Player(1, "ann", "batsman", 45, 130, 30, 60),
       Player(2, "bea", "all-rounder", 35, 125, 28, 70),
       Player(3, "cy", "bowler", 10, 70, 25, 60) >>

\* the third batter in has the name of an opener
SquadSameName ==
    << Player(4, "dee", "batsman", 40, 120, 0, 0),
       Player(5, "eve", "wicket-keeper", 38, 115, 0, 0),
       Player(6, "dee", "bowler", 12, 80, 27, 70) >>

\* one player only: too few to bat
SquadOne == << Player(7, "flo", "bowler", 10, 70, 26, 60) >>

\* two players, one of them a bowler
SquadRival ==
    << Player(11, "gus", "batsman", 48, 140, 0, 0),
       Player(12, "hal", "bowler", 10, 70, 26, 60) >>

\* nobody who bowls
SquadNoBowler ==
    << Player(13, "ivy", "batsman", 42, 135, 0, 0),
       Player(14, "jo", "wicket-keeper", 38, 115, 0, 0) >>

\* a player with the name of a player of SquadFull
SquadNamesake ==
    << Player(15, "ann", "all-rounder", 35, 125, 28, 70),
       Player(16, "kim", "bowler", 10, 70, 25, 60) >>

\* the pairs of squads (team_a, team_b) a match is made of
Fixtures ==
    { <<SquadFull, SquadRival>>, <<SquadSameName, SquadRival>>,
      <<SquadFull, SquadNamesake>>, <<SquadOne, SquadRival>>,
      <<SquadFull, SquadNoBowler>> }

\* the eleven of the test suite: five batsmen, two all-rounders, a keeper and
\* three bowlers; base is added to the player ids, names are the players' names
Eleven(base, names) ==
    << Player(base + 1, names[1], "batsman", 40, 120, 30, 60),
       Player(base + 2, names[2], "batsman", 42, 125, 30, 60),
       Player(base + 3, names[3], "batsman", 44, 130, 30, 60),
       Player(base + 4, names[4], "batsman", 46, 135, 30, 60),
       Player(base + 5, names[5], "batsman", 48, 140, 30, 60),
       Player(base + 6, names[6], "all-rounder", 35, 125, 28, 70),
       Player(base + 7, names[7], "all-rounder", 35, 125, 28, 70),
       Player(base + 8, names[8], "wicket-keeper", 38, 115, 30, 60),
       Player(base + 9, names[9], "bowler", 10, 70, 25, 60),
       Player(base + 10, names[10], "bowler", 10, 70, 26, 65),
       Player(base + 11, names[11], "bowler", 10, 70, 27, 70) >>

SquadElevenA ==
    Eleven(20, <<"a1", "a2", "a3", "a4", "a5", "a6", "a7", "a8", "a9", "a10", "a11">>)

SquadElevenB ==
    Eleven(40, <<"b1", "b2", "b3", "b4", "b5", "b6", "b7", "b8", "b9", "b10", "b11">>)

\* an eleven whose opening bowler has the name of SquadElevenA's
SquadElevenC ==
    Eleven(60, <<"c1", "c2", "c3", "c4", "c5", "c6", "c7", "c8", "a9", "c10", "c11">>)

\* a squad whose third batter, kim, comes in only when a wicket falls
SquadBench ==
    << Player(51, "lee", "batsman", 48, 140, 0, 0),
       Player(52, "max", "batsman", 47, 140, 0, 0),
       Player(53, "kim", "batsman", 5, 60, 0, 0),
       Player(54, "ned", "bowler", 10, 70, 25, 60) >>

\* an opener with the name of SquadBench's third batter
SquadStar ==
    << Player(55, "kim", "batsman", 50, 150, 0, 0),
       Player(56, "oz", "bowler", 10, 70, 26, 60) >>

\* the pairs of squads a simulated match is made of
MatchFixtures ==
    Fixtures \cup { <<SquadElevenA, SquadElevenB>>, <<SquadElevenA, SquadElevenC>>,
                    <<SquadBench, SquadStar>> }

TeamIds == {"A", "B"}

Other(team) == IF team = "A" THEN "B" ELSE "A"

(***************************************************************************)
(* SpecInnings: simulate_innings called directly, any number of times, on  *)
(* an engine whose match has not started.                                  *)
(***************************************************************************)
InitInnings ==
    /\ \E f \in Fixtures : teams = [A |-> f[1], B |-> f[2]]
    /\ format \in {"T20"}
    /\ match = NewMatch
    /\ engine = NewEngine
    /\ innings = InningsData
    /\ loc = NoLocals
    /\ ipc = "idle"
    /\ mpc = "idle"
    /\ mloc = NoMatchLocals
    /\ rng = 0
    /\ hist = NoHistory(0)
    /\ ret = NoCall
    /\ tally = NoTally

\* engine.simulate_innings(batting_team, bowling_team, target), up to the loop
CallInnings ==
    /\ mpc = "idle"
    /\ ipc \in {"idle", "returned", "raised"}
    /\ \E batting_team \in TeamIds, target \in {NoTarget} \cup (0..MaxTarget) :
         LET s == InningsSetup(batting_team, Other(batting_team), target)
         IN  /\ innings' = s.innings
             /\ engine' = s.engine
             /\ loc' = s.loc
             /\ ipc' = s.ipc
             /\ ret' = IF s.ipc = "raised"
                       THEN Outcome("simulate_innings", batting_team, TRUE)
                       ELSE NoCall
             /\ tally' = NoTally
    /\ UNCHANGED <<teams, format, match, mpc, mloc, rng, hist>>

\* the results simulate_ball can return to the running innings
OracleResults ==
    {simulate_ball(loc.striker, loc.current_bowler, d[1], d[2], d[3]) :
        d \in Draws \X Draws \X Draws}

\* a delivery whose random values come from the oracle
OracleDelivery ==
    /\ mpc = "idle"
    /\ ipc = "loop"
    /\ \E r \in OracleResults :
         /\ IF r.is_extra THEN innings.extras < MaxExtras
            ELSE BallsPerOver * innings.overs + innings.balls < MaxBalls
         /\ Delivery(r)
    /\ ret' = IF ipc' = "returned"
               THEN Outcome("simulate_innings", engine.batting_team, FALSE)
               ELSE ret
    /\ UNCHANGED <<teams, format, match, mpc, mloc, rng, hist>>

ReturnInnings ==
    /\ mpc = "idle"
    /\ InningsReturn
    /\ ret' = Outcome("simulate_innings", engine.batting_team, FALSE)
    /\ UNCHANGED <<teams, format, match, mpc, mloc, rng, hist>>

NextInnings == CallInnings \/ OracleDelivery \/ ReturnInnings

SpecInnings == InitInnings /\ [][NextInnings]_vars

(***************************************************************************)
(* Spec: a caller that seeds the random source and calls simulate_match,   *)
(* start_match and end_match on one match and one engine.                  *)
(***************************************************************************)
\* the seeds tried, and the calls of simulate_match made on one match
NumSeeds == 10
MaxCalls == 2

Init ==
    /\ \E f \in MatchFixtures : teams = [A |-> f[1], B |-> f[2]]
    /\ format \in Formats
    /\ match = NewMatch
    /\ engine = NewEngine
    /\ innings = InningsData
    /\ loc = NoLocals
    /\ ipc = "idle"
    /\ mpc = "idle"
    /\ mloc = NoMatchLocals
    /\ rng \in 0..(NumSeeds - 1)
    /\ hist = NoHistory(rng)
    /\ ret = NoCall
    /\ tally = NoTally

Callable == mpc \in {"idle", "done", "failed"}

\* simulate_match is called (after random.seed(seed) when reseed): lines 259-273
MatchToss ==
    /\ Callable
    /\ hist.calls < MaxCalls
    /\ \E reseed \in BOOLEAN :
         LET d1 == IF reseed THEN hist.seed ELSE rng
             d2 == NextRng(d1)
             toss_winner == TossWinner(d1)
             elected_to == ElectedTo(d2)
         IN  /\ reseed => rng # hist.seed
             /\ match' = [match EXCEPT !.status = "IN_PROGRESS",
                                       !.toss_winner = toss_winner,
                                       !.elected_to = elected_to]
             /\ mloc' = [first_batting |-> FirstBatting(toss_winner, elected_to),
                         first_bowling |-> FirstBowling(toss_winner, elected_to),
                         target |-> NoTarget]
             /\ rng' = NextRng(d2)
             /\ hist' = [hist EXCEPT !.calls = @ + 1,
                                     !.replay = (hist.calls = 1 /\ d1 = hist.seed),
                                     !.before = match]
    /\ mpc' = "toss"
    /\ ret' = NoCall
    /\ UNCHANGED <<teams, format, engine, innings, loc, ipc, tally>>

\* line 285 or 303: simulate_innings is entered; its ValueError ends simulate_match
EnterInnings(batting_team, bowling_team, target, next) ==
    \E s \in {InningsSetup(batting_team, bowling_team, target)} :
        /\ innings' = s.innings
        /\ engine' = s.engine
        /\ loc' = s.loc
        /\ ipc' = s.ipc
        /\ mpc' = IF s.ipc = "raised" THEN "failed" ELSE next
        /\ ret' = IF s.ipc = "raised" THEN Outcome("simulate_match", None, TRUE)
                   ELSE ret
        /\ tally' = NoTally

StartFirstInnings ==
    /\ mpc = "toss"
    /\ EnterInnings(mloc.first_batting, mloc.first_bowling, NoTarget, "innings1")
    /\ hist' = IF hist.calls = 1 /\ ipc' = "raised"
               THEN [hist EXCEPT !.first = match, !.first_ret = ret'] ELSE hist
    /\ UNCHANGED <<teams, format, match, mloc, rng>>

\* a delivery whose random values come from the seeded source
SeededDelivery ==
    /\ mpc \in {"innings1", "innings2"}
    /\ ipc = "loop"
    /\ LET d1 == rng
           d2 == NextRng(d1)
           d3 == NextRng(d2)
       IN  \E r \in {simulate_ball(loc.striker, loc.current_bowler, d1, d2, d3)} :
               /\ Delivery(r)
               /\ rng' = IF r.ndraws = 2 THEN d3 ELSE NextRng(d3)
    /\ UNCHANGED <<teams, format, match, mpc, mloc, hist, ret>>

LoopExit ==
    /\ mpc \in {"innings1", "innings2"}
    /\ InningsReturn
    /\ UNCHANGED <<teams, format, match, mpc, mloc, rng, hist, ret>>

\* lines 285-303: the first innings is recorded and the second is entered
StartSecondInnings ==
    /\ mpc = "innings1"
    /\ ipc = "returned"
    /\ match' = UpdateScores([match EXCEPT !.innings1 = innings],
                             mloc.first_batting, innings)
    /\ mloc' = [mloc EXCEPT !.target = innings.score + 1]
    /\ EnterInnings(mloc.first_bowling, mloc.first_batting, innings.score + 1,
                    "innings2")
    /\ hist' = IF hist.calls = 1 /\ ipc' = "raised"
               THEN [hist EXCEPT !.first = match', !.first_ret = ret', !.tally1 = tally]
               ELSE [hist EXCEPT !.tally1 = tally]
    /\ UNCHANGED <<teams, format, rng>>

\* lines 303-330: the second innings is recorded and the winner determined
RecordResult ==
    /\ mpc = "innings2"
    /\ ipc = "returned"
    /\ match' = DetermineWinner(
                    UpdateScores([match EXCEPT !.innings2 = innings],
                                 mloc.first_bowling, innings),
                    mloc.first_batting, mloc.first_bowling)
    /\ mpc' = "result"
    /\ UNCHANGED <<teams, format, engine, innings, loc, ipc, mloc, rng, hist, ret,
                   tally>>

\* line 333
SelectPlayerOfMatch ==
    /\ mpc = "result"
    /\ match' = [match EXCEPT !.player_of_match = select_player_of_match(match, teams)]
    /\ mpc' = "award"
    /\ UNCHANGED <<teams, format, engine, innings, loc, ipc, mloc, rng, hist, ret,
                   tally>>

\* lines 335-348: the match is completed and returned
CompleteMatch ==
    /\ mpc = "award"
    /\ match' = [match EXCEPT !.status = "COMPLETED"]
    /\ mpc' = "done"
    /\ ret' = Outcome("simulate_match", None, FALSE)
    /\ hist' = IF hist.calls = 1
               THEN [hist EXCEPT !.first = match', !.first_ret = ret'] ELSE hist
    /\ UNCHANGED <<teams, format, engine, innings, loc, ipc, mloc, rng, tally>>

\* the caller calls match.end_match(winner, result_text)
EndMatch ==
    /\ Callable
    /\ \E winner \in {"A", "B", None, "C"} :
         LET e == end_match(match, winner, <<"ended">>)
         IN  /\ match' = e.match
             /\ ret' = Outcome("end_match", winner, e.raised)
    /\ UNCHANGED <<teams, format, engine, innings, loc, ipc, mpc, mloc, rng, hist,
                   tally>>

\* the caller calls match.start_match()
StartMatch ==
    /\ Callable
    /\ match' = start_match(match)
    /\ ret' = Outcome("start_match", None, FALSE)
    /\ UNCHANGED <<teams, format, engine, innings, loc, ipc, mpc, mloc, rng, hist,
                   tally>>

Next ==
    \/ MatchToss
    \/ StartFirstInnings
    \/ SeededDelivery
    \/ LoopExit
    \/ StartSecondInnings
    \/ RecordResult
    \/ SelectPlayerOfMatch
    \/ CompleteMatch
    \/ EndMatch
    \/ StartMatch

Spec == Init /\ [][Next]_vars

(***************************************************************************)
(* SpecLive: the same caller on T20 matches and fewer seeds; a            *)
(* simulate_match that was called keeps running (it is sequential code:    *)
(* its next step is taken), while the caller need not call again.          *)
(***************************************************************************)
\* the fixtures where progress is checked: one that is played out and the two
\* whose rosters simulate_innings rejects
LiveFixtures ==
    { <<SquadFull, SquadRival>>, <<SquadOne, SquadRival>>, <<SquadFull, SquadNoBowler>> }

\* the number of seeds tried where progress is checked
LiveSeeds == 1

\* Twenty-over matches of the squads of Fixtures, under LiveSeeds seeds from the
\* middle of the range.
InitLive ==
    /\ Init
    /\ format = "T20"
    /\ <<teams.A, teams.B>> \in LiveFixtures
    /\ rng \in (NumSeeds \div 2)..((NumSeeds \div 2) + LiveSeeds - 1)

\* the steps of a running simulate_match
RunStep ==
    \/ StartFirstInnings
    \/ SeededDelivery
    \/ LoopExit
    \/ StartSecondInnings
    \/ RecordResult
    \/ SelectPlayerOfMatch
    \/ CompleteMatch

SpecLive == InitLive /\ [][Next]_vars /\ WF_vars(RunStep)

(***************************************************************************)
(* Properties.                                                             *)
(***************************************************************************)
InInnings == ipc \in {"loop", "returned"}

DistinctNames(order) ==
    \A i, j \in 1..Len(order) : i # j => order[i].name # order[j].name

LegalBalls(inn) == BallsPerOver * inn.overs + inn.balls

\* C1: in every state of an innings whose batting order has distinct names, the
\* score is the sum of the batters' runs plus the extras.
C1_ScoreIsRunsPlusExtras ==
    (InInnings /\ DistinctNames(loc.batting_order))
        => innings.score = DictSum(innings.batting_scores) + innings.extras

C1_Witness ==
    /\ ipc = "returned"
    /\ DistinctNames(loc.batting_order)
    /\ innings.extras > 0
    /\ innings.wickets > 0
    /\ DictSum(innings.batting_scores) > 0

\* C2: in every state of an innings, wickets is the number of entries of
\* fall_of_wickets and is at most 10.
C2_WicketsAreFallOfWickets ==
    InInnings => /\ innings.wickets = Len(innings.fall_of_wickets)
                 /\ innings.wickets <= 10

C2_Witness == ipc = "returned" /\ innings.wickets = 10

\* C3: completed overs never exceed the format's max overs, and no delivery is
\* bowled once they equal it: the only step of such an innings is its return.
C3_OversWithinMax ==
    /\ [](InInnings => innings.overs <= get_max_overs(format))
    /\ [][(ipc = "loop" /\ innings.overs >= get_max_overs(format))
            => (innings' = innings /\ ipc' = "returned")]_vars

C3_Witness ==
    /\ ipc = "returned"
    /\ innings.overs = get_max_overs(format)
    /\ innings.wickets < Len(loc.batting_order) - 1

\* C4: with a target t >= 1, no delivery is simulated in a state where score >= t:
\* the only step of such an innings is its return, with its figures unchanged.
C4_NoBallPastTarget ==
    [][(ipc = "loop" /\ loc.target >= 1 /\ innings.score >= loc.target)
         => (innings' = innings /\ ipc' = "returned")]_vars

C4_Witness ==
    /\ ipc = "returned"
    /\ loc.target >= 1
    /\ innings.score > loc.target
    /\ innings.balls \in 1..5
    /\ innings.wickets < Len(loc.batting_order) - 1

MatchOk == Outcome("simulate_match", None, FALSE)

\* C5: after simulate_match completes, a higher innings-2 score makes the team
\* that batted second the winner "by (10 - innings-2 wickets) wickets", a lower
\* one makes the team that batted first the winner "by (innings-1 score -
\* innings-2 score) runs", and equal scores give no winner and a tie.
C5_ResultDetermination ==
    ret = MatchOk =>
        LET s1 == match.innings1.score
            s2 == match.innings2.score
            batted_second == engine.batting_team
            batted_first == engine.bowling_team
        IN  /\ s2 > s1 =>
                /\ match.winner = batted_second
                /\ match.result_text =
                       <<batted_second, "won by", 10 - match.innings2.wickets, "wickets">>
            /\ s2 < s1 =>
                /\ match.winner = batted_first
                /\ match.result_text = <<batted_first, "won by", s1 - s2, "runs">>
            /\ s2 = s1 =>
                /\ match.winner = None
                /\ match.result_text = <<"Match tied">>

C5_Witness ==
    /\ ret = MatchOk
    /\ match.innings2.score > match.innings1.score
    /\ match.innings2.wickets > 0
    /\ match.innings2.balls \in 1..5
    /\ match.innings1.score >= 150

\* C6: whenever the status is COMPLETED the winner is team_a, team_b or null;
\* end_match with one of these records it and completes the match, and end_match
\* with any other team raises and leaves the match as it was.
C6_WinnerIsCompetitorOrNull ==
    /\ [](match.status = "COMPLETED" => match.winner \in {"A", "B", None})
    /\ [][ret'.call = "end_match" =>
            IF ret'.arg \in {"A", "B", None}
            THEN ~ret'.raised /\ match'.winner = ret'.arg
                 /\ match'.status = "COMPLETED"
            ELSE ret'.raised /\ match' = match]_vars

C6_Witness ==
    /\ ret = Outcome("end_match", "C", TRUE)
    /\ match.status = "COMPLETED"
    /\ match.winner = None
    /\ match.player_of_match # NoPlayer

\* The players of the two teams, and what each did over both innings of the
\* match just completed, by player_id.
AllPlayers == UNION {{teams[t][i] : i \in 1..Len(teams[t])} : t \in TeamIds}

Entry(t, id) == IF DictHas(t, id) THEN DictGet(t, id) ELSE 0

RunsOf(p) == Entry(hist.tally1.runs, p.player_id) + Entry(tally.runs, p.player_id)

WicketsOf(p) ==
    Entry(hist.tally1.wickets, p.player_id) + Entry(tally.wickets, p.player_id)

\* the bowlers in the order they came on: the first innings' rotation, then the
\* second's (the team batting last bowled first)
BowlersInOrder ==
    get_bowlers(teams[engine.batting_team]) \o get_bowlers(teams[engine.bowling_team])

MostWickets(order) ==
    order[CHOOSE i \in 1..Len(order) :
            /\ \A j \in 1..Len(order) : WicketsOf(order[j]) <= WicketsOf(order[i])
            /\ \A j \in 1..(i - 1) : WicketsOf(order[j]) < WicketsOf(order[i])]

\* C7: after a completed match in which some player took 3 or more wickets over
\* both innings, the player of the match is the player with the most wickets,
\* the first to have bowled among those level on wickets, whatever was scored.
C7_WicketPriority ==
    (ret = MatchOk /\ \E p \in AllPlayers : WicketsOf(p) >= 3)
        => match.player_of_match = MostWickets(BowlersInOrder)

\* C8: after a completed match in which nobody took 3 wickets, the player of the
\* match is a player no other outscored over both innings, and there is one
\* unless neither innings holds a batting score.
C8_RunRule ==
    (ret = MatchOk /\ \A p \in AllPlayers : WicketsOf(p) < 3) =>
        /\ \A p \in AllPlayers : RunsOf(p) <= RunsOf(match.player_of_match)
        /\ match.player_of_match = NoPlayer =>
              /\ match.innings1.batting_scores = <<>>
              /\ match.innings2.batting_scores = <<>>

\* C9: a second simulate_match on the same match and engine, fed the draws of
\* the first (the same seed), ends as the first did: the same toss, innings
\* records, scorelines, winner, result text and player of the match; one that
\* raises does so like the first, with the same toss and first innings.
C9_SameSeedSameMatch ==
    (hist.replay /\ hist.calls = 2 /\ ret.call = "simulate_match") =>
        /\ ret = hist.first_ret
        /\ ~ret.raised => match = hist.first
        /\ ret.raised =>
              /\ match.toss_winner = hist.first.toss_winner
              /\ match.elected_to = hist.first.elected_to
              /\ match.innings1 = hist.first.innings1

C9_Witness ==
    /\ hist.replay
    /\ hist.calls = 2
    /\ ret = MatchOk
    /\ match.innings1.wickets = 10
    /\ match.innings2.overs > 0

\* C10: simulate_innings raises ValueError exactly when the batting order has
\* fewer than 2 players or the bowler list is empty, and then no ball has been
\* simulated and the innings holds no run, ball, wicket or bowling figure.
C10_RosterInsufficient ==
    (ipc # "idle") =>
        LET batting_order == get_batting_order(teams[engine.batting_team])
            bowlers == get_bowlers(teams[engine.bowling_team])
        IN  /\ (ipc = "raised") <=> (Len(batting_order) < 2 \/ Len(bowlers) = 0)
            /\ (ipc = "raised") => (innings = InningsData /\ tally = NoTally)

C10_Witness ==
    /\ ipc = "raised"
    /\ ret = Outcome("simulate_innings", engine.batting_team, TRUE)
    /\ Len(get_batting_order(teams[engine.batting_team])) >= 2
    /\ engine.bowler_index > 0

MatchRaised == Outcome("simulate_match", None, TRUE)

\* the fields of the match a failed simulation could leave changed
Scoreline(m) ==
    <<m.team_a_score, m.team_a_wickets, m.team_a_overs,
      m.team_b_score, m.team_b_wickets, m.team_b_overs>>

\* C11: when simulate_match raises, the match holds no partial state: its
\* status, toss, innings records and scorelines are as they were before the call.
C11_AllOrNothing ==
    ret = MatchRaised =>
        /\ match.status = hist.before.status
        /\ match.toss_winner = hist.before.toss_winner
        /\ match.elected_to = hist.before.elected_to
        /\ match.innings1 = hist.before.innings1
        /\ match.innings2 = hist.before.innings2
        /\ Scoreline(match) = Scoreline(hist.before)

\* the stop conditions of an innings: ten wickets, no batter left to come in,
\* the overs bowled out, the target reached
StopCondition ==
    \/ innings.wickets = 10
    \/ innings.wickets >= Len(loc.batting_order) - 1
    \/ innings.overs = get_max_overs(format)
    \/ (loc.target >= 1 /\ innings.score >= loc.target)

\* a step that bowls one delivery of the running innings: a legal ball or an extra
BowlsDelivery ==
    \/ LegalBalls(innings') = LegalBalls(innings) + 1
    \/ (innings'.extras > innings.extras /\ LegalBalls(innings') = LegalBalls(innings))

\* C12: when simulate_innings returns, a stop condition holds; and while none
\* holds, the innings has not returned and its next step bowls a delivery.
C12_CompleteWhenStopCondition ==
    /\ [](ipc = "returned" => StopCondition)
    /\ [][(ipc = "loop" /\ ~StopCondition) => BowlsDelivery]_vars

C12_Witness ==
    /\ ipc = "returned"
    /\ innings.wickets = Len(loc.batting_order) - 1
    /\ innings.wickets < 10
    /\ innings.overs < get_max_overs(format)
    /\ loc.target >= 1
    /\ innings.score < loc.target

\* C13: an innings has at most 6 x max overs legal deliveries; a running innings
\* returns, and a simulate_match that was called reaches COMPLETED or raises the
\* ValueError of an insufficient roster.
C13_Terminates ==
    /\ [](InInnings => LegalBalls(innings) <= 6 * get_max_overs(format))
    /\ (ipc = "loop") ~> (ipc = "returned")
    /\ (mpc = "toss") ~> ((ret = MatchOk /\ match.status = "COMPLETED")
                             \/ ret = MatchRaised)

C13_Witness ==
    /\ ret = MatchOk
    /\ match.status = "COMPLETED"
    /\ LegalBalls(match.innings1) = 6 * get_max_overs(format)
    /\ match.innings1.extras > 0

\* C13 as stated: every simulate_match that was called reaches COMPLETED.
C13_AlwaysCompleted ==
    /\ [](InInnings => LegalBalls(innings) <= 6 * get_max_overs(format))
    /\ (ipc = "loop") ~> (ipc = "returned")
    /\ (mpc = "toss") ~> (match.status = "COMPLETED")

\* a simulate_match that has been called and has neither returned nor raised
MatchRunning == mpc \in {"toss", "innings1", "innings2", "result", "award"}

\* C14: while simulate_match runs (toss, both innings, result determination and
\* award) the status is IN_PROGRESS; the step of simulate_match that makes it
\* COMPLETED changes nothing else and finds the winner, the result text and the
\* player of the match of this match already set.
C14_CompletedLast ==
    /\ [](MatchRunning => match.status = "IN_PROGRESS")
    /\ [][(MatchRunning /\ match'.status = "COMPLETED") =>
            /\ mpc = "award"
            /\ match' = [match EXCEPT !.status = "COMPLETED"]
            /\ match.winner =
                   DetermineWinner(match, mloc.first_batting, mloc.first_bowling).winner
            /\ match.result_text =
                   DetermineWinner(match, mloc.first_batting,
                                   mloc.first_bowling).result_text
            /\ match.result_text # <<>>
            /\ match.player_of_match = select_player_of_match(match, teams)
            /\ match.player_of_match # NoPlayer]_vars

\* a second simulation of a match that was COMPLETED is completed again
C14_Witness ==
    /\ ret = MatchOk
    /\ match.status = "COMPLETED"
    /\ hist.calls = 2
    /\ hist.before.status = "COMPLETED"
    /\ match.player_of_match # NoPlayer
    /\ match.winner = None

\* C15: before each delivery and in the innings simulate_innings returns, the
\* balls bowled in the current over are between 0 and 5 (the sixth legal ball
\* has closed the over, whatever its outcome).
C15_BallsInOver == InInnings => innings.balls \in 0..(BallsPerOver - 1)

(***************************************************************************)
(* The outcome model on its own: one batter and one optional bowler, whose *)
(* ratings are drawn from the sets below, and calls of simulate_ball,      *)
(* calculate_dismissal_probability and calculate_scoring_probabilities on  *)
(* them.  The batter is loc.striker, the bowler loc.current_bowler (or     *)
(* NoPlayer for no bowler); ret.arg is the value returned.                 *)
(***************************************************************************)
BattingAverages == {-5, 0, 10, 15, 20, 45, 100}
StrikeRates == {-100, 0, 70, 100, 140, 300}
BowlingAverages == {-3, 0, 10, 20, 25, 60}
\* in tenths of a run
EconomyRates == {-10, 0, 30, 60, 120}

Batters == {Player(1, "bat", "batsman", a, sr, 30, 60) :
                a \in BattingAverages, sr \in StrikeRates}

BowlersOrNone ==
    {Player(2, "bowl", "bowler", 30, 100, a, e) :
         a \in BowlingAverages, e \in EconomyRates} \cup {NoPlayer}

\* the values random.random() returns, in thousandths
FirstDraws == {0, 49, 50, 999}
SecondDraws == {0, 4, 5, 20, 79, 80, 699, 700, 999}
ThirdDraws == {0, 300, 499, 500, 700, 850, 950, 999}

InitBall ==
    /\ teams = [A |-> SquadFull, B |-> SquadRival]
    /\ format = "T20"
    /\ match = NewMatch
    /\ engine = NewEngine
    /\ innings = InningsData
    /\ \E b \in Batters, w \in BowlersOrNone :
           loc = [NoLocals EXCEPT !.striker = b, !.current_bowler = w]
    /\ ipc = "idle"
    /\ mpc = "idle"
    /\ mloc = NoMatchLocals
    /\ rng = 0
    /\ hist = NoHistory(0)
    /\ ret = NoCall
    /\ tally = NoTally

\* engine.simulate_ball(batsman, bowler)
CallSimulateBall ==
    /\ \E d1 \in FirstDraws, d2 \in SecondDraws, d3 \in ThirdDraws :
           ret' = Outcome("simulate_ball",
                          simulate_ball(loc.striker, loc.current_bowler, d1, d2, d3),
                          FALSE)
    /\ UNCHANGED <<teams, format, match, engine, innings, loc, ipc, mpc, mloc, rng,
                   hist, tally>>

\* batsman.calculate_dismissal_probability(bowler)
CallDismissalProbability ==
    /\ ret' = Outcome("calculate_dismissal_probability",
                      calculate_dismissal_probability(loc.striker, loc.current_bowler),
                      FALSE)
    /\ UNCHANGED <<teams, format, match, engine, innings, loc, ipc, mpc, mloc, rng,
                   hist, tally>>

\* batsman.calculate_scoring_probabilities(bowler)
CallScoringProbabilities ==
    /\ ret' = Outcome("calculate_scoring_probabilities",
                      calculate_scoring_probabilities(loc.striker, loc.current_bowler),
                      FALSE)
    /\ UNCHANGED <<teams, format, match, engine, innings, loc, ipc, mpc, mloc, rng,
                   hist, tally>>

NextBall == CallSimulateBall \/ CallDismissalProbability \/ CallScoringProbabilities

SpecBall == InitBall /\ [][NextBall]_vars

\* the three variants of a ball result
IsExtraResult(r) ==
    /\ r.is_extra
    /\ ~r.is_wicket
    /\ \/ (r.extra_type = "wide" /\ r.runs = 1)
       \/ (r.extra_type = "no-ball" /\ r.runs \in {1, 2})

IsWicketResult(r) == r.is_wicket /\ ~r.is_extra /\ r.runs = 0

IsRunsResult(r) == ~r.is_wicket /\ ~r.is_extra /\ r.runs \in {0, 1, 2, 3, 4, 6}

\* C16: every result of simulate_ball is exactly one of: an extra (a wide of 1
\* run, or a no-ball of 1 or 2 runs, never a wicket), a wicket with 0 runs that
\* is not an extra, or 0, 1, 2, 3, 4 or 6 runs with neither flag set.
C16_OneOfThreeVariants ==
    ret.call = "simulate_ball" =>
        LET r == ret.arg
            n == (IF IsExtraResult(r) THEN 1 ELSE 0)
                 + (IF IsWicketResult(r) THEN 1 ELSE 0)
                 + (IF IsRunsResult(r) THEN 1 ELSE 0)
        IN  n = 1

C16_Witness ==
    /\ ret.call = "simulate_ball"
    /\ ret.arg.extra_type = "no-ball"
    /\ ret.arg.runs = 2

RatEq(p, q) == p[1] * q[2] = q[1] * p[2]

\* 0.025 x 37.5/max(battingAverage, 15) x bowlerFactor, where bowlerFactor is
\* 30/max(bowlingAverage, 20) for a bowler with a bowling average > 0, else 1;
\* 0.025 x 37.5 is 15/16
UnclampedDismissal(batsman, bowler) ==
    LET bn == IF bowler # NoPlayer /\ bowler.bowling_average > 0 THEN 30 ELSE 1
        bd == IF bowler # NoPlayer /\ bowler.bowling_average > 0
              THEN (IF bowler.bowling_average > 20 THEN bowler.bowling_average ELSE 20)
              ELSE 1
        avg == IF batsman.batting_average > 15 THEN batsman.batting_average ELSE 15
    IN  <<15 * bn, 16 * avg * bd>>

C18_ScoringDistribution ==
    (ret.call = "calculate_scoring_probabilities" /\ loc.striker.strike_rate >= 0) =>
        LET probs == ret.arg
        IN  /\ [i \in 1..Len(probs) |-> probs[i][1]] = <<0, 1, 2, 3, 4, 6>>
            /\ \A i \in 1..Len(probs) : probs[i][2][1] >= 0 /\ probs[i][2][2] > 0
            /\ \A i \in 1..Len(probs) : probs[i][2][2] = probs[1][2][2]
            /\ DictSum([i \in 1..Len(probs) |-> <<probs[i][1], probs[i][2][1]>>])
                   = probs[1][2][2]

\* an aggression of 6 (strike rate 300 against an economy of 12.0): the dot mass
\* is at its floor and the boundary masses at their ceilings
C18_Witness ==
    /\ ret.call = "calculate_scoring_probabilities"
    /\ loc.striker.strike_rate = 300
    /\ loc.current_bowler # NoPlayer
    /\ loc.current_bowler.economy = 120
    /\ RatEq(ret.arg[1][2], <<35, 102>>)
    /\ RatEq(ret.arg[6][2], <<10, 102>>)

\* the team that is to bat first after the toss recorded in the match
BatsFirst ==
    IF match.elected_to = "bat" THEN match.toss_winner ELSE Other(match.toss_winner)

\* C19: the team batting first is the toss winner exactly when it elected to
\* bat, else the other team; the second innings is batted by the team that
\* bowled in the first and bowled by the team that batted in it, with the
\* first innings' final score + 1 as target.
C19_InningsOrder ==
    /\ (mpc = "innings1" /\ InInnings) =>
           /\ engine.batting_team = BatsFirst
           /\ engine.bowling_team = Other(BatsFirst)
           /\ (engine.batting_team = match.toss_winner) <=> (match.elected_to = "bat")
           /\ loc.target = NoTarget
    /\ (mpc = "innings2" /\ InInnings) =>
           /\ engine.batting_team = Other(BatsFirst)
           /\ engine.bowling_team = BatsFirst
           /\ loc.target = match.innings1.score + 1
           /\ match.innings1.score =
                  (IF BatsFirst = "A" THEN match.team_a_score ELSE match.team_b_score)

C19_Witness ==
    /\ mpc = "innings2"
    /\ ipc = "returned"
    /\ match.toss_winner = "B"
    /\ match.elected_to = "bowl"
    /\ engine.batting_team = "B"
    /\ loc.target > 1
    /\ innings.score >= loc.target

\* the players of a team's roster
Roster(team) == {teams[team][i] : i \in 1..Len(teams[team])}

\* C20: no step of a simulation changes a roster, and the players an innings
\* works with (batting order, bowlers, the two batters at the crease and the
\* current bowler) are players of the rosters with their ratings as they are
\* there.
C20_InputsNotMutated ==
    /\ [][teams' = teams]_vars
    /\ [](InInnings =>
            /\ \A i \in 1..Len(loc.batting_order) :
                   loc.batting_order[i] \in Roster(engine.batting_team)
            /\ \A i \in 1..Len(loc.bowlers) :
                   loc.bowlers[i] \in Roster(engine.bowling_team)
            /\ loc.striker \in Roster(engine.batting_team)
            /\ loc.non_striker \in Roster(engine.batting_team)
            /\ loc.current_bowler \in Roster(engine.bowling_team))

C20_Witness ==
    /\ ret = MatchOk
    /\ Len(teams.A) = 11
    /\ match.innings1.wickets > 0
    /\ match.innings2.wickets > 0
    /\ match.innings2.overs > 1

(***************************************************************************)
(* The roster operations of a team (models/team.py) on their own: the      *)
(* roster is teams.A; players are added and removed by the caller and the  *)
(* batting order and the bowler list are asked for.  ret.arg is the value  *)
(* returned (with the argument, for add_player and remove_player);         *)
(* hist.calls counts the additions and removals.  teams.captain is the     *)
(* captain of the team, None for a team created without one.               *)
(***************************************************************************)
PlayingXiLimit == 11

\* a team's default max_players
DefaultMaxPlayers == 15

\* Faulty variant: the roster is limited by max_players instead.
add_player_max_players(players, player) ==
    IF Len(players) >= DefaultMaxPlayers
    THEN [players |-> players, result |-> FALSE]
    ELSE [players |-> Append(players, player), result |-> TRUE]

\* Team.add_player
add_player(players, player) ==
    IF Len(players) >= PlayingXiLimit
    THEN [players |-> players, result |-> FALSE]
    ELSE [players |-> Append(players, player), result |-> TRUE]

\* Team.remove_player: the first player with the id is popped
remove_player(players, player_id) ==
    LET hits == {i \in 1..Len(players) : players[i].player_id = player_id}
    IN  IF hits = {} THEN [players |-> players, result |-> FALSE]
        ELSE LET i == CHOOSE h \in hits : \A k \in hits : h <= k
             IN  [players |-> SubSeq(players, 1, i - 1)
                                  \o SubSeq(players, i + 1, Len(players)),
                  result |-> TRUE]

\* the additions and removals made to one roster
MaxTeamCalls == 3

\* a squad of six specialist batters, two of them of the same average
SquadBatters ==
    << Player(81, "r1", "batsman", 30, 100, 30, 60),
       Player(82, "r2", "batsman", 50, 100, 30, 60),
       Player(83, "r3", "batsman", 40, 100, 30, 60),
       Player(84, "r4", "batsman", 50, 100, 30, 60),
       Player(85, "r5", "batsman", 20, 100, 30, 60),
       Player(86, "r6", "batsman", 45, 100, 30, 60) >>

StartRosters ==
    { <<>>, SquadFull, SquadSameName, SquadBatters, SquadElevenA,
      SubSeq(SquadElevenA, 1, 10) }

\* the players a caller adds: bowlers and all-rounders without a bowling
\* rating, a keeper, a batter, a second player with the id of "a9", and a
\* bowler who concedes 1000 runs a wicket
Candidates ==
    { Player(91, "x1", "bowler", 15, 70, 0, 60),
      Player(92, "x2", "all-rounder", 50, 120, -1, 60),
      Player(93, "x3", "bowler", 5, 70, 20, 60),
      Player(94, "x4", "wicket-keeper", 44, 110, 30, 60),
      Player(95, "x5", "batsman", 44, 130, 30, 60),
      Player(96, "x6", "all-rounder", 35, 120, 26, 60),
      Player(29, "x7", "bowler", 10, 70, 25, 60),
      Player(97, "x8", "bowler", 8, 70, 1000, 60) }

RemoveIds == {1, 29, 21, 92, 99}

InitTeam ==
    /\ \E r \in StartRosters : teams = [A |-> r, B |-> <<>>, captain |-> NoPlayer]
    /\ format = "T20"
    /\ match = NewMatch
    /\ engine = NewEngine
    /\ innings = InningsData
    /\ loc = NoLocals
    /\ ipc = "idle"
    /\ mpc = "idle"
    /\ mloc = NoMatchLocals
    /\ rng = 0
    /\ hist = NoHistory(0)
    /\ ret = NoCall
    /\ tally = NoTally

\* team.add_player(player)
AddPlayer ==
    /\ hist.calls < MaxTeamCalls
    /\ \E p \in Candidates :
         \E a \in {add_player(teams.A, p)} :
           /\ teams' = [teams EXCEPT !.A = a.players]
           /\ ret' = Outcome("add_player", [player |-> p, result |-> a.result], FALSE)
    /\ hist' = [hist EXCEPT !.calls = @ + 1]
    /\ UNCHANGED <<format, match, engine, innings, loc, ipc, mpc, mloc, rng, tally>>

\* team.remove_player(player_id)
RemovePlayer ==
    /\ hist.calls < MaxTeamCalls
    /\ \E id \in RemoveIds :
         \E a \in {remove_player(teams.A, id)} :
           /\ teams' = [teams EXCEPT !.A = a.players]
           /\ ret' = Outcome("remove_player", [player_id |-> id, result |-> a.result],
                             FALSE)
    /\ hist' = [hist EXCEPT !.calls = @ + 1]
    /\ UNCHANGED <<format, match, engine, innings, loc, ipc, mpc, mloc, rng, tally>>

\* Team.set_captain: the captain after the call, and the value returned
set_captain(players, captain, player) ==
    IF \E i \in 1..Len(players) : players[i] = player
    THEN [captain |-> player, result |-> TRUE]
    ELSE [captain |-> captain, result |-> FALSE]

\* team.set_captain(player), with a player of the roster or another one, among
\* those a caller may remove
SetCaptain ==
    /\ \E p \in {q \in Candidates \cup Roster("A") : q.player_id \in RemoveIds} :
         \E a \in {set_captain(teams.A, teams.captain, p)} :
           /\ teams' = [teams EXCEPT !.captain = a.captain]
           /\ ret' = Outcome("set_captain", [player |-> p, result |-> a.result], FALSE)
    /\ UNCHANGED <<format, match, engine, innings, loc, ipc, mpc, mloc, rng, hist,
                   tally>>

\* team.get_batting_order()
GetBattingOrder ==
    /\ ret' = Outcome("get_batting_order", get_batting_order(teams.A), FALSE)
    /\ UNCHANGED <<teams, format, match, engine, innings, loc, ipc, mpc, mloc, rng,
                   hist, tally>>

\* team.get_bowlers()
GetBowlers ==
    /\ ret' = Outcome("get_bowlers", get_bowlers(teams.A), FALSE)
    /\ UNCHANGED <<teams, format, match, engine, innings, loc, ipc, mpc, mloc, rng,
                   hist, tally>>

NextTeam == AddPlayer \/ RemovePlayer \/ SetCaptain \/ GetBattingOrder \/ GetBowlers

SpecTeam == InitTeam /\ [][NextTeam]_vars

\* the step is a call of add_player or remove_player
RosterCall == hist'.calls = hist.calls + 1

Count(s, p) == Cardinality({i \in 1..Len(s) : s[i] = p})

\* how many players of the sequence s have the role
CountRole(s, role) == Cardinality({i \in 1..Len(s) : s[i].role = role})

\* the bucket of the i-th place of a batting order of the roster: 1 top
\* batters (the first three batsmen), 2 wicket-keepers, 3 all-rounders,
\* 4 remaining batters, 5 bowlers
BucketOfPlace(roster, i) ==
    LET nb == CountRole(roster, "batsman")
        top == IF nb < 3 THEN nb ELSE 3
        nw == CountRole(roster, "wicket-keeper")
        na == CountRole(roster, "all-rounder")
    IN  IF i <= top THEN 1
        ELSE IF i <= top + nw THEN 2
        ELSE IF i <= top + nw + na THEN 3
        ELSE IF i <= nb + nw + na THEN 4
        ELSE 5

RoleOfBucket(b) ==
    IF b = 2 THEN "wicket-keeper"
    ELSE IF b = 3 THEN "all-rounder"
    ELSE IF b = 5 THEN "bowler"
    ELSE "batsman"

IsBowlingRole(p) == p.role \in {"bowler", "all-rounder"}

\* get_bowlers returned exactly the bowlers and all-rounders of the roster, the
\* bowlers first, each role in ascending bowling average with the unrated last
BowlersListed(res, roster) ==
    /\ \A i \in 1..Len(res) : IsBowlingRole(res[i])
    /\ Len(res) = CountRole(roster, "bowler") + CountRole(roster, "all-rounder")
    /\ \A i \in 1..Len(roster) :
           IsBowlingRole(roster[i]) => Count(res, roster[i]) = Count(roster, roster[i])
    /\ \A i, j \in 1..Len(res) :
           i < j => ~(res[i].role = "all-rounder" /\ res[j].role = "bowler")
    /\ \A i, j \in 1..Len(res) :
           (i < j /\ res[i].role = res[j].role) =>
               \/ res[j].bowling_average <= 0
               \/ /\ res[i].bowling_average > 0
                  /\ res[i].bowling_average <= res[j].bowling_average

\* C23: for a roster whose bowling averages are below 999, get_bowlers returns
\* exactly the roster's bowlers and all-rounders, bowlers before all-rounders,
\* in ascending bowling average, the unrated (average <= 0) last.
C23_BowlersSorted ==
    (/\ ret.call = "get_bowlers"
     /\ \A i \in 1..Len(teams.A) : teams.A[i].bowling_average < 999)
        => BowlersListed(ret.arg, teams.A)

\* an unrated bowler ahead of the all-rounders, an unrated all-rounder last
C23_Witness ==
    /\ ret.call = "get_bowlers"
    /\ \A i \in 1..Len(teams.A) : teams.A[i].bowling_average < 999
    /\ Len(ret.arg) >= 5
    /\ ret.arg[Len(ret.arg)].player_id = 92
    /\ \E i \in 1..(Len(ret.arg) - 1) :
           /\ ret.arg[i].player_id = 91
           /\ ret.arg[i + 1].role = "all-rounder"
           /\ ret.arg[i + 1].bowling_average > 0

\* C23 as stated: for every roster.
C23_UnratedLast == ret.call = "get_bowlers" => BowlersListed(ret.arg, teams.A)

\* a bowler's figures in an innings record (zero before the first entry)
FiguresOf(inn, name) ==
    IF DictHas(inn.bowling_figures, name) THEN DictGet(inn.bowling_figures, name)
    ELSE NewFigures

\* the step is an extra of the running innings
ExtraStep == ipc = "loop" /\ innings'.extras > innings.extras

\* C24: an extra adds its runs to the score, the extras and the current
\* bowler's runs conceded, and nothing else changes: balls, overs, wickets,
\* fall of wickets, the batters' runs and balls, the other bowlers' figures,
\* striker, non-striker and current bowler.
C24_ExtraFrame ==
    [][ExtraStep =>
        LET runs == innings'.extras - innings.extras
            bowler == loc.current_bowler.name
        IN  /\ innings'.score = innings.score + runs
            /\ FiguresOf(innings', bowler) =
                   [FiguresOf(innings, bowler) EXCEPT !.runs = @ + runs]
            /\ DictKeys(innings'.bowling_figures) =
                   DictKeys(innings.bowling_figures) \cup {bowler}
            /\ \A k \in DictKeys(innings.bowling_figures) \ {bowler} :
                   FiguresOf(innings', k) = FiguresOf(innings, k)
            /\ innings'.balls = innings.balls
            /\ innings'.overs = innings.overs
            /\ innings'.wickets = innings.wickets
            /\ innings'.fall_of_wickets = innings.fall_of_wickets
            /\ innings'.batting_scores = innings.batting_scores
            /\ innings'.batting_balls = innings.batting_balls
            /\ loc' = loc
            /\ engine' = engine
            /\ ipc' = "loop"]_vars

\* an innings in mid-over whose only runs so far are extras, off a bowler who
\* had no figures before
C24_Witness ==
    /\ ipc = "loop"
    /\ innings.extras > 0
    /\ innings.score = innings.extras
    /\ innings.balls = 0
    /\ innings.overs = 0
    /\ FiguresOf(innings, loc.current_bowler.name).runs = innings.extras

\* the step is a wicket of the running innings
WicketStep == ipc = "loop" /\ innings'.wickets > innings.wickets

\* C25: a wicket leaves the score as it is and appends one fall-of-wicket entry:
\* the score, the new wicket count and the striker of that ball; the list is in
\* order of time: its k-th entry has wicket count k and the scores never go
\* down (nor exceed the innings' score).
C25_FallOfWickets ==
    /\ [][WicketStep =>
            /\ innings'.wickets = innings.wickets + 1
            /\ innings'.score = innings.score
            /\ innings'.fall_of_wickets =
                   Append(innings.fall_of_wickets,
                          <<innings.score, innings.wickets + 1, loc.striker.name>>)]_vars
    /\ [][(InInnings /\ innings'.fall_of_wickets # innings.fall_of_wickets) =>
            (WicketStep \/ innings'.fall_of_wickets = <<>>)]_vars
    /\ [](InInnings =>
            LET fow == innings.fall_of_wickets
            IN  /\ \A k \in 1..Len(fow) : fow[k][2] = k /\ fow[k][1] <= innings.score
                /\ \A k \in 1..(Len(fow) - 1) : fow[k][1] <= fow[k + 1][1])

\* three wickets at three different scores, the last by a batter who came in
C25_Witness ==
    /\ InInnings
    /\ Len(innings.fall_of_wickets) >= 3
    /\ innings.fall_of_wickets[1][1] < innings.fall_of_wickets[2][1]
    /\ innings.fall_of_wickets[2][1] < innings.fall_of_wickets[3][1]
    /\ innings.fall_of_wickets[3][3] \notin
           {loc.batting_order[1].name, loc.batting_order[2].name}

\* the step is a legal delivery off which runs (or none) were scored
RunsStep ==
    /\ ipc = "loop"
    /\ LegalBalls(innings') = LegalBalls(innings) + 1
    /\ innings'.wickets = innings.wickets

\* the delivery of the step closes its over
ClosesOver == innings'.overs = innings.overs + 1

StrikeSwapped == loc'.striker = loc.non_striker /\ loc'.non_striker = loc.striker

StrikeKept == loc'.striker = loc.striker /\ loc'.non_striker = loc.non_striker

\* C26: a legal delivery of r runs swaps striker and non-striker exactly when r
\* is odd, and the end of an over swaps them once more (so odd runs off the last
\* ball of an over leave the batter on strike); an extra changes neither; after
\* a wicket the batter who comes in takes the striker's place before the
\* end-of-over swap.
C26_StrikeRotation ==
    /\ [][RunsStep =>
            LET odd == (innings'.score - innings.score) % 2 = 1
            IN  IF odd # ClosesOver THEN StrikeSwapped ELSE StrikeKept]_vars
    /\ [][ExtraStep => StrikeKept]_vars
    /\ [][(WicketStep /\ ipc' = "loop") =>
            LET next == loc.batting_order[engine.batsmen_index + 1]
            IN  IF ClosesOver
                THEN loc'.striker = loc.non_striker /\ loc'.non_striker = next
                ELSE loc'.striker = next /\ loc'.non_striker = loc.non_striker]_vars

\* the batter who faced all six balls of the first over and took odd runs in
\* it (off its last ball, then) is on strike for the second
C26_Witness ==
    /\ ipc = "loop"
    /\ innings.overs = 1
    /\ innings.balls = 0
    /\ innings.wickets = 0
    /\ DictGet(innings.batting_balls, loc.striker.name) = 6
    /\ DictGet(innings.batting_scores, loc.striker.name) % 2 = 1
    /\ loc.striker = loc.batting_order[1]

\* the overs credited in the bowling figures of an innings record
OversCredited(inn) ==
    DictSum([i \in 1..Len(inn.bowling_figures) |->
                <<inn.bowling_figures[i][1], inn.bowling_figures[i][2].overs>>])

\* the step is a delivery (legal or extra) of the running innings
DeliveryStep == ipc = "loop" /\ innings' # innings /\ ipc' \in {"loop", "returned"}

\* C27: the bowler of the over with index k (from 0) is bowlers[k mod n]; a
\* delivery touches the figures of that bowler only; the bowler changes only
\* when an over is closed; the overs credited add up to the completed overs.
C27_BowlerRotation ==
    /\ [](InInnings =>
            /\ loc.current_bowler =
                   loc.bowlers[(innings.overs % Len(loc.bowlers)) + 1]
            /\ OversCredited(innings) = innings.overs
            /\ DictSum(engine.bowler_overs) = innings.overs
            /\ Len(loc.bowlers) = 1 => loc.current_bowler = loc.bowlers[1])
    /\ [][DeliveryStep =>
            /\ \A k \in DictKeys(innings'.bowling_figures) \ {loc.current_bowler.name} :
                   FiguresOf(innings', k) = FiguresOf(innings, k)
            /\ loc'.current_bowler # loc.current_bowler => ClosesOver
            /\ loc'.bowlers = loc.bowlers]_vars

\* the second innings, with the five bowlers of an eleven gone round once
C27_Witness ==
    /\ mpc = "innings2"
    /\ ipc = "loop"
    /\ Len(loc.bowlers) = 5
    /\ innings.overs = 6
    /\ innings.balls = 3
    /\ innings.extras > 0
    /\ loc.current_bowler = loc.bowlers[2]

\* C28: with a batting order of n players the wickets never exceed n - 1; the
\* wicket that makes them n - 1 ends the innings in the same step, so no
\* delivery is bowled with n - 1 wickets down.
C28_AllOutEndsInnings ==
    /\ [](InInnings =>
            /\ Len(loc.batting_order) \in 2..11
            /\ innings.wickets <= Len(loc.batting_order) - 1)
    /\ [](ipc = "loop" => innings.wickets < Len(loc.batting_order) - 1)
    /\ [][(WicketStep /\ innings'.wickets = Len(loc.batting_order) - 1) =>
            (ipc' = "returned" /\ innings'.balls = innings.balls + 1)]_vars

\* a first innings of a three-player order, all out for two wickets with overs
\* left
C28_Witness ==
    /\ mpc = "innings1"
    /\ ipc = "returned"
    /\ Len(loc.batting_order) = 3
    /\ innings.wickets = 2
    /\ innings.overs < get_max_overs(format)

\* the figures _select_player_of_match compares: {**innings1, **innings2}
AllBatting == DictMerge(match.innings1.batting_scores, match.innings2.batting_scores)

AllBowling == DictMerge(match.innings1.bowling_figures, match.innings2.bowling_figures)

\* the runs and the wickets recorded under a name in one innings record
RunsUnder(inn, name) == Entry(inn.batting_scores, name)

WicketsUnder(inn, name) == FiguresOf(inn, name).wickets

\* C29: the run total and the wicket total the player-of-match selection
\* compares under a name are the sums of the figures under that name over both
\* innings.
C29_CombinedFigures ==
    ret = MatchOk =>
        /\ \A name \in DictKeys(AllBatting) :
               DictGet(AllBatting, name) =
                   RunsUnder(match.innings1, name) + RunsUnder(match.innings2, name)
        /\ \A name \in DictKeys(AllBowling) :
               DictGet(AllBowling, name).wickets =
                   WicketsUnder(match.innings1, name) + WicketsUnder(match.innings2, name)

\* a team's match-level score and wickets
TeamScore(m, team) ==
    IF team = "A" THEN <<m.team_a_score, m.team_a_wickets>>
    ELSE <<m.team_b_score, m.team_b_wickets>>

\* C30: after a completed simulate_match, each team's match-level score and
\* wickets are the final score and wickets of the innings in which it batted,
\* whichever team won the toss and whatever it elected.
C30_TeamScorelines ==
    ret = MatchOk =>
        /\ TeamScore(match, BatsFirst) =
               <<match.innings1.score, match.innings1.wickets>>
        /\ TeamScore(match, Other(BatsFirst)) =
               <<match.innings2.score, match.innings2.wickets>>

C30_Witness ==
    /\ ret = MatchOk
    /\ match.toss_winner = "A"
    /\ match.elected_to = "bowl"
    /\ match.innings1.wickets > 0
    /\ match.innings2.wickets > 0
    /\ match.innings1.wickets # match.innings2.wickets
    /\ match.team_b_score = match.innings1.score
    /\ match.team_a_score > match.team_b_score

\* C31: the match status only moves forward along NOT_STARTED -> IN_PROGRESS ->
\* COMPLETED under any calls of start_match, end_match and simulate_match: a
\* COMPLETED match stays COMPLETED, an IN_PROGRESS match never returns to
\* NOT_STARTED, and the status is never ABANDONED.
C31_StatusForward ==
    [][/\ match.status = "COMPLETED" => match'.status = "COMPLETED"
       /\ match.status = "IN_PROGRESS" => match'.status \in {"IN_PROGRESS", "COMPLETED"}
       /\ match'.status \in {"NOT_STARTED", "IN_PROGRESS", "COMPLETED"}]_vars

\* a step that enters the ball-by-ball loop of a new innings
InningsStarts == ipc # "loop" /\ ipc' = "loop"

\* C32: at the start of every innings the striker and the non-striker are the
\* first two players of the batting order, entered with 0 runs and 0 balls, the
\* next batter to come in is the third, and the opening bowler is the first of
\* the bowling team's bowler list, whatever the engine held before.
C32_InningsOpening ==
    [][InningsStarts =>
          LET order == get_batting_order(teams[engine'.batting_team])
              bowlers == get_bowlers(teams[engine'.bowling_team])
          IN  /\ loc'.striker = order[1]
              /\ loc'.non_striker = order[2]
              /\ \A p \in {order[1], order[2]} :
                     /\ DictGet(innings'.batting_scores, p.name) = 0
                     /\ DictGet(innings'.batting_balls, p.name) = 0
              /\ engine'.batsmen_index = 2
              /\ loc'.batting_order = order
              /\ loc'.current_bowler = bowlers[1]
              /\ innings'.score = 0 /\ innings'.wickets = 0
              /\ LegalBalls(innings') = 0]_vars

\* the fourth innings on one engine has just started, after an innings in which
\* wickets fell and the bowling rotation had moved on
C32_Witness ==
    /\ hist.calls = 2
    /\ mpc = "innings2"
    /\ ipc = "loop"
    /\ LegalBalls(innings) = 0
    /\ innings.extras = 0
    /\ match.innings1.wickets > 0
    /\ match.innings1.overs % 2 = 1
    /\ Len(loc.batting_order) >= 3
    /\ Len(get_bowlers(teams[Other(engine.bowling_team)])) >= 2
    /\ engine.bowler_index = 0

\* C33: an innings called with target = 0, which the score meets before the
\* first ball, bowls no delivery: in all its states, its return included, the
\* score, the wickets, the legal balls and the extras are 0.
C33_ZeroTargetStops ==
    (InInnings /\ loc.target = 0) =>
        /\ innings.score = 0
        /\ innings.wickets = 0
        /\ LegalBalls(innings) = 0
        /\ innings.extras = 0

\* C34: for any completed innings, also one whose batting order has two
\* players of the same name, the score is the sum of the batters' runs plus the
\* extras.
C34_AccountingSharedNames ==
    ipc = "returned" =>
        innings.score = DictSum(innings.batting_scores) + innings.extras

\* C35: in every state of an innings the balls faced, summed over all batters,
\* are the legal deliveries bowled: 6 x completed overs + balls in the current
\* over.
C35_BallsFaced ==
    InInnings => DictSum(innings.batting_balls) = LegalBalls(innings)

\* the sum of one field of the bowlers' figures
RECURSIVE FiguresSum(_, _)
FiguresSum(figures, field) ==
    IF figures = <<>> THEN 0
    ELSE figures[1][2][field] + FiguresSum(Tail(figures), field)

\* C36: in every state of an innings the runs conceded, summed over the bowlers
\* of bowling_figures, are the innings score, and their wickets summed are the
\* innings' wickets.
C36_BowlingTotals ==
    InInnings =>
        /\ FiguresSum(innings.bowling_figures, "runs") = innings.score
        /\ FiguresSum(innings.bowling_figures, "wickets") = innings.wickets

C36_Witness ==
    /\ ipc = "returned"
    /\ Len(innings.bowling_figures) >= 2
    /\ innings.extras > 0
    /\ innings.score > innings.extras
    /\ innings.wickets >= 2
    /\ \A i \in 1..2 : /\ innings.bowling_figures[i][2].runs > 0
                        /\ innings.bowling_figures[i][2].wickets > 0

\* C37: while an innings whose batting order has no repeated player is being
\* played, the striker and the non-striker are two different players, both
\* entered in batting_scores, and neither is recorded as dismissed in
\* fall_of_wickets.
C37_CreasePair ==
    (/\ ipc = "loop"
     /\ \A i, j \in 1..Len(loc.batting_order) :
            i # j => loc.batting_order[i] # loc.batting_order[j])
        => /\ loc.striker # loc.non_striker
           /\ DictHas(innings.batting_scores, loc.striker.name)
           /\ DictHas(innings.batting_scores, loc.non_striker.name)
           /\ \A k \in 1..Len(innings.fall_of_wickets) :
                  innings.fall_of_wickets[k][3] \notin
                      {loc.striker.name, loc.non_striker.name}

\* C38: when a completed match is won by wickets, innings 2 reached the target
\* with its last scoring delivery (target <= score <= target + 5) with at most
\* 9 wickets down, and the stated margin is 10 - wickets, between 1 and 10;
\* when it is won by runs or tied, innings 2 ended short of the target, all
\* out or out of overs.
C38_MarginConsistent ==
    ret = MatchOk =>
        LET target == match.innings1.score + 1
            second == match.innings2
            text == match.result_text
        IN  /\ text[Len(text)] = "wickets" =>
                /\ target <= second.score
                /\ second.score <= target + 5
                /\ second.wickets <= 9
                /\ text[3] = 10 - second.wickets
                /\ text[3] \in 1..10
            /\ text[Len(text)] \in {"runs", "Match tied"} =>
                /\ second.score < target
                /\ \/ second.wickets = Len(loc.batting_order) - 1
                   \/ second.wickets = MaxWickets
                   \/ second.overs = get_max_overs(format)

C38_Witness ==
    /\ ret = MatchOk
    /\ match.result_text[Len(match.result_text)] = "wickets"
    /\ match.innings2.score = match.innings1.score + 5
    /\ match.innings2.wickets > 0

\* the players of a team entered in the figures of an innings record: the
\* batters who came to the crease (the openers and one per wicket) when the team
\* batted, the bowlers who bowled (in rotation order, one entry each) when it
\* bowled
WithFigures(team, inn, batted) ==
    LET order == IF batted THEN get_batting_order(teams[team])
                 ELSE get_bowlers(teams[team])
        n == IF batted THEN Min2(inn.wickets + 2, Len(order))
             ELSE Min2(Len(inn.bowling_figures), Len(order))
    IN  {order[i] : i \in 1..n}

\* C39: after a simulate_match that reached COMPLETED, player_of_match is a
\* player of team_a or team_b who batted or bowled in one of the two innings.
C39_PlayerOfMatchPlayed ==
    ret = MatchOk =>
        /\ match.player_of_match # NoPlayer
        /\ match.player_of_match \in AllPlayers
        /\ match.player_of_match \in
               WithFigures(BatsFirst, match.innings1, TRUE)
                   \cup WithFigures(Other(BatsFirst), match.innings1, FALSE)
                   \cup WithFigures(Other(BatsFirst), match.innings2, TRUE)
                   \cup WithFigures(BatsFirst, match.innings2, FALSE)

\* C40: on a team created without a captain, after any add_player,
\* remove_player and set_captain calls the captain is None or a player of the
\* current roster; set_captain with a player who is not on the roster returns
\* False and leaves the captain as it was.
C40_CaptainOnRoster ==
    /\ [](teams.captain = NoPlayer \/ teams.captain \in Roster("A"))
    /\ [][(ret'.call = "set_captain" /\ ret'.arg.player \notin Roster("A")) =>
            (ret'.arg.result = FALSE /\ teams'.captain = teams.captain)]_vars

====
